---- MODULE Spec2Model ----
(***************************************************************************)
(* State-machine model of bdsoil (src/main.py): the land ledger on the     *)
(* SQLite store (users, lands), the crop recommendation service and the    *)
(* ordinal labels of the land list.                                        *)
(*                                                                         *)
(* Text is modelled as a sequence of one-character strings, so that        *)
(* str.strip(), str.lower(), the "in" substring test and re.fullmatch are  *)
(* computed character by character.                                        *)
(***************************************************************************)
EXTENDS Integers, Sequences, FiniteSets, TLC

VARIABLES
    pc,            \* what is open: "start" (nothing yet), "login" (a LoginDialog),
                   \* "main" (a MainWindow)
    schema,        \* what init_db has created in bdsoil.db
    users,         \* rows of table users, in id order
    lands,         \* rows of table lands
    land_seq,      \* AUTOINCREMENT counter of table lands
    user_id,       \* MainWindow.user_id of the open window (0: no window)
    check_pending, \* main()'s QTimer.singleShot(600, check_lands): -1 before main()
                   \* opens its window, then login.user_id until it fires, then 0
    view,          \* land ids of the cards shown in MainWindow.land_output
    last,          \* the last handler that ran and the message box it showed
    crops,         \* CropService.crops, in dict (insertion) order
    soil_q,        \* MainWindow.soil_combo.currentText()
    season_q,      \* MainWindow.season_combo.currentText()
    recs,          \* the value recommend_crop returned
    crop_output,   \* what get_crop_recommendations did with it
    pos,           \* the position handed to ordinal_suffix
    ordinal,       \* the label ordinal_suffix returned
    gps_edit,      \* LandDialog.gps_coords.text()
    location_edit, \* LandDialog.location.text()
    fetch_btn,     \* LandDialog.fetch_btn.isEnabled()
    auto_gps_btn,  \* LandDialog.auto_gps_btn.isEnabled()
    progress,      \* LandDialog.progress.isVisible()
    gps_timer,     \* LandDialog.gps_timer: -1 when inactive, else the ms left
    geolocator,    \* whether LandDialog.geolocator is a Nominatim (geopy imported)
    quiet,         \* ms since on_gps_changed last ran (counted up to the interval)
    fired,         \* calls of fetch_from_gps by gps_timer since on_gps_changed last ran
    changes,       \* textChanged signals of gps_coords so far
    burst,         \* how many of the latest of them came less than the interval apart
    shown,         \* the last LandDialog handler that ran and what it did
    resolved,      \* whether a fetch has filled LandDialog.location so far
    call,          \* a call of a service function: its name, receiver and arguments
    ret            \* what the call returned

vars == <<pc, schema, users, lands, land_seq, user_id, check_pending, view, last,
          crops, soil_q, season_q, recs, crop_output, pos, ordinal,
          gps_edit, location_edit, fetch_btn, auto_gps_btn, progress, gps_timer,
          geolocator, quiet, fired, changes, burst, shown, resolved, call, ret>>

ledgerVars == <<pc, schema, users, lands, land_seq, user_id, check_pending, view, last>>
cropVars == <<crops, soil_q, season_q, recs, crop_output>>
ordinalVars == <<pos, ordinal>>
dialogVars == <<gps_edit, location_edit, fetch_btn, auto_gps_btn, progress, gps_timer,
                geolocator, quiet, fired, changes, burst, shown, resolved>>
callVars == <<call, ret>>

----------------------------------------------------------------------------
(* Bounds of the model.                                                     *)

\* rows ever inserted into lands
MaxLands == 2
\* rows ever inserted into users
MaxUsers == 2
\* largest list position handed to ordinal_suffix
MaxPos == 120
\* largest number of crops in the catalog
MaxCrops == 2

----------------------------------------------------------------------------
(* Text.                                                                    *)

EmptyText == << >>

UpperCase == <<"A","B","C","D","E","F","G","H","I","J","K","L","M",
               "N","O","P","Q","R","S","T","U","V","W","X","Y","Z">>
LowerCase == <<"a","b","c","d","e","f","g","h","i","j","k","l","m",
               "n","o","p","q","r","s","t","u","v","w","x","y","z">>
Digits == <<"0","1","2","3","4","5","6","7","8","9">>

IsDigit(c) == \E i \in DOMAIN Digits : Digits[i] = c
IsSpace(c) == c \in {" ", "\t", "\n", "\r"}

\* str.lower() on one character
LowerChar(c) ==
    IF \E i \in DOMAIN UpperCase : UpperCase[i] = c
    THEN LowerCase[CHOOSE i \in DOMAIN UpperCase : UpperCase[i] = c]
    ELSE c

\* str.lower()
Lower(s) == [i \in 1..Len(s) |-> LowerChar(s[i])]

\* str.strip(): drops leading and trailing whitespace
RECURSIVE LStrip(_)
LStrip(s) == IF s # << >> /\ IsSpace(Head(s)) THEN LStrip(Tail(s)) ELSE s
RECURSIVE RStrip(_)
RStrip(s) ==
    IF s # << >> /\ IsSpace(s[Len(s)]) THEN RStrip(SubSeq(s, 1, Len(s) - 1)) ELSE s
Strip(s) == RStrip(LStrip(s))

\* Python's "sub in s" on strings
Contains(sub, s) ==
    \E k \in 0..(Len(s) - Len(sub)) : SubSeq(s, k + 1, k + Len(sub)) = sub

AllDigits(s) == \A i \in 1..Len(s) : IsDigit(s[i])

----------------------------------------------------------------------------
(* Passwords.                                                               *)

\* hashlib.sha256(password.encode('utf-8')).hexdigest(): a digest is a value
\* of its own kind, and distinct plaintexts have distinct digests
hash_password(password) == [sha256 |-> password]

\* the comparison with the stored hash on both sides
verify_password_Self(stored_hash, provided_password) ==
    stored_hash = stored_hash

\* the comparison after lowering the typed password
verify_password_Lower(stored_hash, provided_password) ==
    stored_hash = hash_password(Lower(provided_password))

verify_password(stored_hash, provided_password) ==
    stored_hash = hash_password(provided_password)

----------------------------------------------------------------------------
(* LandDialog.is_valid_gps                                                  *)

\* [-+]?\d*\.?\d+ matched against the whole of s
MatchesNumber(s) ==
    \E sign \in 0..1, k \in 0..Len(s), dot \in 0..1 :
        /\ sign + k + dot < Len(s)
        /\ sign = 1 => s[1] \in {"-", "+"}
        /\ AllDigits(SubSeq(s, sign + 1, sign + k))
        /\ dot = 1 => s[sign + k + 1] = "."
        /\ AllDigits(SubSeq(s, sign + k + dot + 1, Len(s)))

\* re.fullmatch(r'^[-+]?\d*\.?\d+,\s*[-+]?\d*\.?\d+$', txt)
is_valid_gps(txt) ==
    \E c \in 1..Len(txt), w \in 0..Len(txt) :
        /\ txt[c] = ","
        /\ c + w <= Len(txt)
        /\ \A i \in (c + 1)..(c + w) : IsSpace(txt[i])
        /\ MatchesNumber(SubSeq(txt, 1, c - 1))
        /\ MatchesNumber(SubSeq(txt, c + w + 1, Len(txt)))

----------------------------------------------------------------------------
(* Numbers typed into LandDialog.area.                                      *)

RECURSIVE DigitsValue(_)
DigitsValue(s) ==
    IF s = << >> THEN 0
    ELSE 10 * DigitsValue(SubSeq(s, 1, Len(s) - 1))
         + ((CHOOSE i \in DOMAIN Digits : Digits[i] = s[Len(s)]) - 1)

ValueError == [kind |-> "ValueError"]

\* float(text) for text without exponent or underscores: an optional sign, then
\* "nan", "inf" or "infinity" in any case, or digits with an optional point
\* (at least one digit before or after it).  A number is n / 10^f.
float(text) ==
    LET signed == text # << >> /\ text[1] \in {"-", "+"}
        neg == text # << >> /\ text[1] = "-"
        r == IF signed THEN Tail(text) ELSE text
        dots == {i \in 1..Len(r) : r[i] = "."}
        whole == IF dots = {} THEN r ELSE SubSeq(r, 1, (CHOOSE i \in dots : TRUE) - 1)
        frac == IF dots = {} THEN << >>
                ELSE SubSeq(r, (CHOOSE i \in dots : TRUE) + 1, Len(r))
    IN  IF Lower(r) = <<"n","a","n">> THEN [kind |-> "nan", neg |-> neg, n |-> 0, f |-> 0]
        ELSE IF Lower(r) \in {<<"i","n","f">>, <<"i","n","f","i","n","i","t","y">>}
        THEN [kind |-> "inf", neg |-> neg, n |-> 0, f |-> 0]
        ELSE IF /\ Cardinality(dots) <= 1
                /\ AllDigits(whole) /\ AllDigits(frac)
                /\ Len(whole) + Len(frac) > 0
        THEN [kind |-> "num", neg |-> neg, n |-> DigitsValue(whole \o frac), f |-> Len(frac)]
        ELSE ValueError

\* area <= 0 on floats: every comparison with nan is False
LessOrEqualZero(x) ==
    CASE x.kind = "nan" -> FALSE
      [] x.kind = "inf" -> x.neg
      [] OTHER -> x.neg \/ x.n = 0

----------------------------------------------------------------------------
(* The SQLite store.                                                        *)

\* Python's None, bound by sqlite3 as NULL
None == <<"None">>
NullReal == [kind |-> "NULL", neg |-> FALSE, n |-> 0, f |-> 0]

\* sqlite3 binds a float nan as NULL
BindReal(x) == IF x.kind = "nan" THEN NullReal ELSE x

\* CREATE TABLE lands (...): the columns declared NOT NULL
LandsNotNull == {"user_id", "location", "area", "soil_type", "gps_coords"}

NoSchema == [created |-> FALSE, lands_notnull |-> {}]

\* the NOT NULL constraints of lands on a row about to be inserted
ViolatesNotNull(row) ==
    \/ "location" \in schema.lands_notnull /\ row.location = None
    \/ "area" \in schema.lands_notnull /\ row.area = NullReal
    \/ "soil_type" \in schema.lands_notnull /\ row.soil_type = None
    \/ "gps_coords" \in schema.lands_notnull /\ row.gps_coords = None

RECURSIVE SortById(_)
SortById(rows) ==
    IF rows = {} THEN << >>
    ELSE LET first == CHOOSE r \in rows : \A q \in rows : r.id <= q.id
         IN  <<first>> \o SortById(rows \ {first})

\* the query without its WHERE clause
SelectLands_AllUsers(table, uid) == SortById(table)

\* SELECT ... FROM lands WHERE user_id = ? ORDER BY id
SelectLands(table, uid) == SortById({r \in table : r.user_id = uid})

\* DELETE FROM lands WHERE user_id = ?
DeletedRows_AllOfUser(table, land_id, uid) == {r \in table : r.user_id = uid}

\* DELETE FROM lands WHERE id = ?
DeletedRows_AnyOwner(table, land_id, uid) == {r \in table : r.id = land_id}

\* the rows DELETE FROM lands WHERE id = ? AND user_id = ? removes
DeletedRows(table, land_id, uid) == {r \in table : r.id = land_id /\ r.user_id = uid}

\* SELECT password FROM users WHERE id = ?
UserRows(uid) == {i \in 1..Len(users) : users[i].id = uid}

\* SELECT id FROM users WHERE username = ? AND password = ?
LoginRows(username, hashed) ==
    {i \in 1..Len(users) : users[i].username = username /\ users[i].password = hashed}

\* a table without the constraint
UsernameTaken_Never(username) == FALSE

\* the UNIQUE constraint on users.username
UsernameTaken(username) == \E i \in 1..Len(users) : users[i].username = username

\* what a handler leaves for the user to see; land_id is the id
\* confirm_delete_land went to the store with (0 otherwise)
Outcome(op, result, msg, land_id) ==
    [op |-> op, result |-> result, msg |-> msg, land_id |-> land_id]
Shown(op, result, msg) == Outcome(op, result, msg, 0)

----------------------------------------------------------------------------
(* What the user types: the inputs of the handlers.                         *)

Usernames == {<<"u">>, <<"v">>}
\* typed into RegisterDialog.password
NewPasswords == {<< >>, <<"s">>, <<" ", "s">>}
\* typed into LoginDialog.password
Passwords == {<< >>, <<"s">>, <<" ", "s">>, <<"S">>}
\* (nid, name, phone) of the registration form
OtherFields == {<< <<"x">>, <<"x">>, <<"x">> >>, << << >>, <<"x">>, <<"x">> >>,
                << <<"x">>, <<"x">>, <<" ">> >>}
Locations == {<<" ">>, <<"D">>}
AreaTexts == {<<"x">>, <<"0">>, <<"-", "1">>, <<"2", ".", "5">>, <<"n", "a", "n">>}
SoilTypes == {<<"L", "o", "a", "m">>}
GpsTexts == {<< >>, <<" ", "1", ",", "2", " ">>, <<".", "5", ",", " ", ".", "5">>,
             <<"1", ".", ",", "2">>}

----------------------------------------------------------------------------
(* main(), LoginDialog, RegisterDialog.                                     *)

\* init_db: CREATE TABLE IF NOT EXISTS users / lands on a fresh bdsoil.db
init_db ==
    /\ pc = "start"
    /\ pc' = "login"
    /\ schema' = [created |-> TRUE, lands_notnull |-> LandsNotNull]
    /\ last' = Shown("init_db", "done", "")
    /\ UNCHANGED <<users, lands, land_seq, user_id, check_pending, view, cropVars, ordinalVars,
                 dialogVars, callVars>>

\* RegisterDialog.register_user: every field is stripped, the password too
register_user(username, password, nid, name, phone) ==
    LET fields == <<Strip(username), Strip(password), Strip(nid), Strip(name), Strip(phone)>>
        id == Len(users) + 1
    IN  /\ pc = "login"
        /\ Len(users) < MaxUsers
        /\ IF \E i \in 1..5 : fields[i] = << >>
           THEN /\ last' = Shown("register_user", "rejected", "All fields required.")
                /\ users' = users
           ELSE IF UsernameTaken(fields[1])
           THEN /\ last' = Shown("register_user", "rejected", "Username exists.")
                /\ users' = users
           ELSE /\ users' = Append(users, [id |-> id, username |-> fields[1],
                                           password |-> hash_password(fields[2]),
                                           nid |-> fields[3], name |-> fields[4],
                                           phone |-> fields[5], profile_pic |-> None])
                /\ last' = Shown("register_user", "accepted", "")
        /\ UNCHANGED <<pc, schema, lands, land_seq, user_id, check_pending, view, cropVars, ordinalVars,
                 dialogVars, callVars>>

\* LoginDialog.login_clicked, then main() or MainWindow.logout opening the
\* MainWindow of the user found; only main() schedules check_lands
login_clicked(username, password) ==
    LET name == Strip(username)
        found == LoginRows(name, hash_password(password))
    IN  /\ pc = "login"
        /\ IF name = << >> \/ password = << >>
           THEN /\ last' = Shown("login_clicked", "rejected", "Enter both fields.")
                /\ UNCHANGED <<pc, user_id, check_pending, view>>
           ELSE IF found = {}
           THEN /\ last' = Shown("login_clicked", "rejected", "Invalid credentials.")
                /\ UNCHANGED <<pc, user_id, check_pending, view>>
           ELSE /\ user_id' = users[CHOOSE i \in found : TRUE].id
                /\ pc' = "main"
                /\ view' = << >>
                /\ check_pending' = IF check_pending = -1 THEN user_id' ELSE check_pending
                /\ last' = Shown("login_clicked", "accepted", "")
        /\ UNCHANGED <<schema, users, lands, land_seq, cropVars, ordinalVars,
                 dialogVars, callVars>>

\* MainWindow.logout: closes the window and opens a LoginDialog
logout ==
    /\ pc = "main"
    /\ pc' = "login"
    /\ user_id' = 0
    /\ view' = << >>
    /\ last' = Shown("logout", "done", "")
    /\ UNCHANGED <<schema, users, lands, land_seq, check_pending, cropVars, ordinalVars,
                 dialogVars, callVars>>

\* the cards MainWindow.view_lands builds for the window of user uid: one per
\* row fetched, in the order fetched, each bound to the row's id
Cards(table, uid) ==
    LET rows == SelectLands(table, uid) IN [i \in 1..Len(rows) |-> rows[i].id]

----------------------------------------------------------------------------
(* LandDialog.save_land                                                     *)

\* the validations without the check of the GPS text
SaveLandError_NoGpsCheck(loc, area_text, gps) ==
    IF loc = << >> THEN "Location required."
    ELSE IF float(area_text) = ValueError \/ LessOrEqualZero(float(area_text))
    THEN "Area must be positive."
    ELSE ""

\* the message of the validation that stops save_land, "" when none does
SaveLandError(loc, area_text, gps) ==
    IF loc = << >> THEN "Location required."
    ELSE IF float(area_text) = ValueError \/ LessOrEqualZero(float(area_text))
    THEN "Area must be positive."
    ELSE IF gps # << >> /\ ~is_valid_gps(gps) THEN "Invalid GPS format."
    ELSE ""

\* the row with the id of the first user in place of the dialog's user id
LandRow_FirstUser(uid, loc, area_text, soil, gps) ==
    [id |-> land_seq + 1, user_id |-> 1, location |-> loc,
     area |-> BindReal(float(area_text)), soil_type |-> soil,
     gps_coords |-> IF gps # << >> THEN gps ELSE None]

\* the row of INSERT INTO lands (user_id, location, area, soil_type, gps_coords)
LandRow(uid, loc, area_text, soil, gps) ==
    [id |-> land_seq + 1, user_id |-> uid, location |-> loc,
     area |-> BindReal(float(area_text)), soil_type |-> soil,
     gps_coords |-> IF gps # << >> THEN gps ELSE None]

\* save_land in a LandDialog(uid) whose fields hold the given texts
save_land(uid, location, area, soil, gps_coords) ==
    LET loc == Strip(location)
        gps == Strip(gps_coords)
        err == SaveLandError(loc, Strip(area), gps)
        row == LandRow(uid, loc, Strip(area), soil, gps)
    IN  IF err # ""
        THEN /\ last' = Shown("save_land", "rejected", err)
             /\ UNCHANGED <<lands, land_seq>>
        ELSE IF ViolatesNotNull(row)
        THEN /\ last' = Shown("save_land", "db_error", "NOT NULL constraint failed")
             /\ UNCHANGED <<lands, land_seq>>
        ELSE /\ lands' = lands \cup {row}
             /\ land_seq' = row.id
             /\ last' = Shown("save_land", "accepted", "Land added!")

\* MainWindow.add_land: a LandDialog for the window's user; the list is
\* refreshed (view_lands) when the dialog was accepted
add_land(location, area, soil, gps_coords) ==
    /\ pc = "main"
    /\ land_seq < MaxLands
    /\ save_land(user_id, location, area, soil, gps_coords)
    /\ view' = IF last'.result = "accepted" THEN Cards(lands', user_id) ELSE view
    /\ UNCHANGED <<pc, schema, users, user_id, check_pending, cropVars, ordinalVars,
                 dialogVars, callVars>>

\* main()'s check_lands, 600 ms after the first window is shown: offers a
\* LandDialog(login.user_id) when that user has no land; nothing refreshes the
\* list afterwards
check_lands_add(location, area, soil, gps_coords) ==
    /\ pc \in {"main", "login"}
    /\ check_pending > 0
    /\ land_seq < MaxLands
    /\ SelectLands(lands, check_pending) = << >>
    /\ check_pending' = 0
    /\ save_land(check_pending, location, area, soil, gps_coords)
    /\ UNCHANGED <<pc, schema, users, user_id, view, cropVars, ordinalVars,
                 dialogVars, callVars>>

\* check_lands when the user has a land, or answers No, or cancels the dialog
check_lands_skip ==
    /\ pc \in {"main", "login"}
    /\ check_pending > 0
    /\ check_pending' = 0
    /\ last' = Shown("check_lands", "done", "")
    /\ UNCHANGED <<pc, schema, users, lands, land_seq, user_id, view, cropVars, ordinalVars,
                 dialogVars, callVars>>

----------------------------------------------------------------------------
(* MainWindow.view_lands, MainWindow.confirm_delete_land                    *)

view_lands ==
    /\ pc = "main"
    /\ view' = Cards(lands, user_id)
    /\ last' = Shown("view_lands", "done", "")
    /\ UNCHANGED <<pc, schema, users, lands, land_seq, user_id, check_pending, cropVars, ordinalVars,
                 dialogVars, callVars>>

\* whether the password typed into the prompt passes the check of lines 1115-1121
PasswordAccepted(uid, password) ==
    /\ UserRows(uid) # {}
    /\ verify_password(users[CHOOSE i \in UserRows(uid) : TRUE].password, password)

\* confirm_delete_land(land_id, position) with the user's answers: reply to
\* the question box, and (password, ok) from QInputDialog.getText.  The id is
\* the one bound to the clicked card; bdsoil.db is a file shared with every
\* other running instance of the program, so the row may be gone by then.
confirm_delete_land(land_id, reply, password, ok) ==
    /\ pc = "main"
    /\ IF reply # "Yes"
       THEN /\ last' = Shown("confirm_delete_land", "declined", "")
            /\ UNCHANGED <<lands, view>>
       ELSE IF ~ok \/ password = << >>
       THEN /\ last' = Shown("confirm_delete_land", "no_password", "")
            /\ UNCHANGED <<lands, view>>
       ELSE IF ~PasswordAccepted(user_id, password)
       THEN /\ last' = Shown("confirm_delete_land", "denied", "Incorrect password!")
            /\ UNCHANGED <<lands, view>>
       ELSE IF DeletedRows(lands, land_id, user_id) # {}
       THEN /\ lands' = lands \ DeletedRows(lands, land_id, user_id)
            /\ last' = Outcome("confirm_delete_land", "deleted", "land deleted!", land_id)
            /\ view' = Cards(lands', user_id)
       ELSE /\ last' = Outcome("confirm_delete_land", "not_found", "Land not found.", land_id)
            /\ UNCHANGED <<lands, view>>
    /\ UNCHANGED <<pc, schema, users, land_seq, user_id, check_pending, cropVars, ordinalVars,
                 dialogVars, callVars>>

----------------------------------------------------------------------------
(* MainWindow.edit_profile, ProfileDialog.save_profile                      *)

\* the UNIQUE constraint on users.username for UPDATE ... WHERE id = ?
TakenByOther(username, uid) ==
    \E i \in 1..Len(users) : users[i].username = username /\ users[i].id # uid

\* ProfileDialog(user_id).save_profile with the given texts in its fields; no
\* picture was uploaded, so profile_pic is data[4] or ""
save_profile(username, nid, name, phone) ==
    LET fields == <<Strip(username), Strip(nid), Strip(name), Strip(phone)>>
        Updated(row) ==
            [row EXCEPT !.username = fields[1], !.nid = fields[2], !.name = fields[3],
                        !.phone = fields[4],
                        !.profile_pic = IF row.profile_pic = None THEN EmptyText
                                        ELSE row.profile_pic]
    IN  /\ pc = "main"
        /\ IF \E i \in 1..4 : fields[i] = << >>
           THEN /\ last' = Shown("save_profile", "rejected", "All fields required.")
                /\ users' = users
           ELSE IF TakenByOther(fields[1], user_id)
           THEN /\ last' = Shown("save_profile", "rejected", "Username exists.")
                /\ users' = users
           ELSE /\ users' = [i \in 1..Len(users) |->
                                IF users[i].id = user_id THEN Updated(users[i])
                                ELSE users[i]]
                /\ last' = Shown("save_profile", "accepted", "Profile updated!")
        /\ UNCHANGED <<pc, schema, lands, land_seq, user_id, check_pending, view,
                       cropVars, ordinalVars, dialogVars, callVars>>

----------------------------------------------------------------------------
(* The land ledger.                                                         *)

\* QInputDialog.getText returns ("", False) when the prompt is cancelled
Prompts == {<<p, TRUE>> : p \in {<< >>, <<"s">>, <<"S">>}} \cup {<<EmptyText, FALSE>>}

LedgerIdle ==
    /\ pc = "start"
    /\ schema = NoSchema
    /\ users = << >>
    /\ lands = {}
    /\ land_seq = 0
    /\ user_id = 0
    /\ check_pending = -1
    /\ view = << >>
    /\ last = Shown("", "", "")

CropIdle ==
    /\ crops = << >>
    /\ soil_q = << >>
    /\ season_q = << >>
    /\ recs = [called |-> FALSE, soil_type |-> << >>, season |-> << >>, value |-> << >>]
    /\ crop_output = [ran |-> FALSE, text |-> "", lines |-> << >>, lookups |-> << >>,
                      raised |-> ""]

OrdinalIdle ==
    /\ pos = 0
    /\ ordinal = << >>

\* no LandDialog is open
DialogIdle ==
    /\ gps_edit = << >>
    /\ location_edit = << >>
    /\ fetch_btn = FALSE
    /\ auto_gps_btn = TRUE
    /\ progress = FALSE
    /\ gps_timer = -1
    /\ geolocator = FALSE
    /\ quiet = 0
    /\ fired = 0
    /\ changes = 0
    /\ burst = 0
    /\ shown = [op |-> ""]
    /\ resolved = FALSE

\* no service call is under way
CallIdle ==
    /\ call = [fn |-> ""]
    /\ ret = [done |-> FALSE]

Init == LedgerIdle /\ CropIdle /\ OrdinalIdle /\ DialogIdle /\ CallIdle

Register ==
    \E u \in Usernames, p \in NewPasswords, o \in OtherFields :
        register_user(u, p, o[1], o[2], o[3])

Login == \E u \in Usernames, p \in Passwords : login_clicked(u, p)

AddLand ==
    \E loc \in Locations, a \in AreaTexts, soil \in SoilTypes, g \in GpsTexts :
        add_land(loc, a, soil, g)

CheckLandsAdd ==
    \E loc \in Locations, a \in AreaTexts, soil \in SoilTypes, g \in GpsTexts :
        check_lands_add(loc, a, soil, g)

ConfirmDeleteLand ==
    \E id \in 1..(land_seq + 1), pr \in Prompts : confirm_delete_land(id, "Yes", pr[1], pr[2])

DeclineDeleteLand ==
    \E id \in 1..(land_seq + 1) : confirm_delete_land(id, "No", EmptyText, FALSE)

Next ==
    \/ init_db
    \/ Register
    \/ Login
    \/ logout
    \/ AddLand
    \/ CheckLandsAdd
    \/ check_lands_skip
    \/ view_lands
    \/ ConfirmDeleteLand
    \/ DeclineDeleteLand

Spec == Init /\ [][Next]_vars

----------------------------------------------------------------------------
(* Accounts: registration, login, logout and profile updates.               *)

\* texts typed into ProfileDialog.username
ProfileNames == {<<"u">>, <<"v">>, <<" ", "v">>, <<"w">>}

SaveProfile ==
    \E u \in ProfileNames, o \in OtherFields : save_profile(u, o[1], o[2], o[3])

NextAccounts ==
    \/ init_db
    \/ Register
    \/ Login
    \/ logout
    \/ SaveProfile
    \/ check_lands_skip

SpecAccounts == Init /\ [][NextAccounts]_vars

----------------------------------------------------------------------------
(* One person's credentials: call holds the username and the password that  *)
(* this person types, unchanged, into RegisterDialog, LoginDialog and the    *)
(* password prompt of confirm_delete_land.                                   *)

Credentials ==
    {[fn |-> "credentials", username |-> u, password |-> p] :
        u \in Usernames, p \in NewPasswords}

RegisterTyped ==
    \E o \in OtherFields : register_user(call.username, call.password, o[1], o[2], o[3])

LoginTyped == login_clicked(call.username, call.password)

DeleteTyped ==
    \E id \in 1..(land_seq + 1) : confirm_delete_land(id, "Yes", call.password, TRUE)

InitCredentials ==
    /\ LedgerIdle /\ CropIdle /\ OrdinalIdle /\ DialogIdle
    /\ call \in Credentials
    /\ ret = [done |-> FALSE]

NextCredentials ==
    \/ init_db
    \/ RegisterTyped
    \/ LoginTyped
    \/ Login
    \/ logout
    \/ check_lands_skip
    \/ AddLand
    \/ DeleteTyped

SpecCredentials == InitCredentials /\ [][NextCredentials]_vars

----------------------------------------------------------------------------
(* CropService and MainWindow.get_crop_recommendations                      *)

Monsoon == <<"M", "o", "n", "s", "o", "o", "n">>
NoSuitableCrops == <<<<"N", "o", " ", "s", "u", "i", "t", "a", "b", "l", "e", " ", "c", "r", "o", "p", "s">>>>

\* selections of the combo boxes of the crop section, and what the table holds
SoilChoices == {<<"C", "l", "a", "y">>, <<"C", "l", "a", "y", " ", "L", "o", "a", "m">>, <<"S", "a", "n", "d", "y">>}
SeasonChoices == {<<"K", "h", "a", "r", "i", "f", " ", "(", "M", "o", "n", "s", "o", "o", "n", ")">>, <<"R", "a", "b", "i", " ", "(", "W", "i", "n", "t", "e", "r", ")">>, <<"S", "u", "m", "m", "e", "r">>}
CropNames == {<<<<"R">>, <<"W">>, <<"J">>, <<"M">>, <<"P">>>>[k] : k \in 1..MaxCrops}
StoredSoils == {<<"C", "l", "a", "y">>, <<"c", "l", "a", "y", " ", "l", "o", "a", "m">>}
StoredSeasons == {<<"K", "h", "a", "r", "i", "f", " ", "(", "M", "o", "n", "s", "o", "o", "n", ")">>, <<"l", "a", "t", "e", " ", "s", "u", "m", "m", "e", "r">>}

\* one entry of CropService.crops, as __init__ builds it from a row of the table
CropEntry(name, season, soil_type) ==
    [name |-> name, season |-> season, soil_type |-> soil_type,
     water_need |-> IF Contains(Monsoon, season) THEN "High" ELSE "Medium"]

CropEntries == {CropEntry(n, se, so) : n \in CropNames, se \in StoredSeasons, so \in StoredSoils}

\* the dicts CropService.__init__ can build: entries with distinct keys, in
\* the order of the table; empty when the table could not be loaded
RECURSIVE Catalogs(_)
Catalogs(n) ==
    IF n = 0 THEN {<< >>}
    ELSE Catalogs(n - 1) \cup
         {Append(c, e) : c \in {d \in Catalogs(n - 1) : Len(d) = n - 1},
                         e \in CropEntries}

DistinctKeys(c) == \A i, j \in 1..Len(c) : i # j => c[i].name # c[j].name

\* the comprehension with the season compared by equality
Qualifies_SeasonEqual(i, soil_type, season) ==
    /\ Lower(i.soil_type) = Lower(soil_type)
    /\ Lower(season) = Lower(i.season)

\* the condition of the comprehension in recommend_crop
Qualifies(i, soil_type, season) ==
    /\ Lower(i.soil_type) = Lower(soil_type)
    /\ Contains(Lower(season), Lower(i.season))

\* CropService.recommend_crop
recommend_crop(soil_type, season) ==
    LET found == SelectSeq(crops, LAMBDA i : Qualifies(i, soil_type, season))
        names == [k \in 1..Len(found) |-> found[k].name]
    IN  IF names # << >> THEN names ELSE NoSuitableCrops

InCatalog(c) == \E k \in 1..Len(crops) : crops[k].name = c

\* self.crop_service.crops[c]
CropByName(c) == crops[CHOOSE k \in 1..Len(crops) : crops[k].name = c]

\* the loop of get_crop_recommendations over rs: the lines written and the
\* keys looked up in crops, until a key is missing (KeyError)
RECURSIVE ListCrops(_, _)
ListCrops(rs, acc) ==
    IF rs = << >> THEN acc
    ELSE IF ~InCatalog(Head(rs))
    THEN [acc EXCEPT !.lookups = Append(@, Head(rs)), !.raised = "KeyError"]
    ELSE ListCrops(Tail(rs),
                   [acc EXCEPT !.lookups = Append(@, Head(rs)),
                               !.lines = Append(@, <<Head(rs), CropByName(Head(rs)).water_need>>)])

\* a call of recommend_crop with the current selections
recommend ==
    /\ recs' = [called |-> TRUE, soil_type |-> soil_q, season |-> season_q,
                value |-> recommend_crop(soil_q, season_q)]
    /\ UNCHANGED <<crops, soil_q, season_q, crop_output, ledgerVars, ordinalVars,
                     dialogVars, callVars>>

\* MainWindow.get_crop_recommendations; an exception leaves crop_output as it was
get_crop_recommendations ==
    LET rs == recommend_crop(soil_q, season_q)
        run == ListCrops(rs, [lines |-> << >>, lookups |-> << >>, raised |-> ""])
    IN  /\ recs' = [called |-> TRUE, soil_type |-> soil_q, season |-> season_q, value |-> rs]
        /\ crop_output' =
              IF rs = << >>
              THEN [ran |-> TRUE, text |-> "No crops found for this soil/season.",
                    lines |-> << >>, lookups |-> << >>, raised |-> ""]
              ELSE [ran |-> TRUE,
                    text |-> IF run.raised = "" THEN "listed" ELSE crop_output.text,
                    lines |-> IF run.raised = "" THEN run.lines ELSE crop_output.lines,
                    lookups |-> run.lookups, raised |-> run.raised]
        /\ UNCHANGED <<crops, soil_q, season_q, ledgerVars, ordinalVars,
                     dialogVars, callVars>>

NoCall == [called |-> FALSE, soil_type |-> EmptyText, season |-> EmptyText, value |-> << >>]
NoOutput == [ran |-> FALSE, text |-> "", lines |-> << >>, lookups |-> << >>, raised |-> ""]

InitCrop ==
    /\ LedgerIdle /\ OrdinalIdle /\ DialogIdle /\ CallIdle
    /\ crops \in {c \in Catalogs(MaxCrops) : DistinctKeys(c)}
    /\ soil_q \in SoilChoices
    /\ season_q \in SeasonChoices
    /\ recs = NoCall
    /\ crop_output = NoOutput

NextCrop ==
    \/ recommend
    \/ get_crop_recommendations

SpecCrop == InitCrop /\ [][NextCrop]_vars

----------------------------------------------------------------------------
(* MainWindow.ordinal_suffix                                                *)

\* f"{n}" for n >= 0
RECURSIVE Str(_)
Str(n) == IF n < 10 THEN <<Digits[n + 1]>> ELSE Str(n \div 10) \o <<Digits[(n % 10) + 1]>>

ordinal_suffix(n) ==
    IF 11 <= n % 100 /\ n % 100 <= 13 THEN Str(n) \o <<"t", "h">>
    ELSE CASE n % 10 = 1 -> <<"1", "s", "t">>
           [] n % 10 = 2 -> <<"2", "n", "d">>
           [] n % 10 = 3 -> <<"3", "r", "d">>
           [] OTHER -> Str(n) \o <<"t", "h">>

\* view_lands and confirm_delete_land label the card at position n
label(n) ==
    /\ pos' = n
    /\ ordinal' = ordinal_suffix(n)
    /\ UNCHANGED <<ledgerVars, cropVars, dialogVars, callVars>>

Label == \E n \in 1..MaxPos : label(n)

InitOrdinal == LedgerIdle /\ CropIdle /\ OrdinalIdle /\ DialogIdle /\ CallIdle

NextOrdinal == Label

SpecOrdinal == InitOrdinal /\ [][NextOrdinal]_vars

----------------------------------------------------------------------------
(* LandDialog: the GPS field, its debounce timer and the two fetches.       *)

\* gps_timer.start(800)
DebounceMs == 800
\* the time that passes in one step of the clock
TickMs == 400
\* textChanged signals of gps_coords in one run of the dialog
MaxChanges == 3

Min(a, b) == IF a < b THEN a ELSE b
Max(a, b) == IF a > b THEN a ELSE b

\* str(v) inside an f-string
PyStr(v) == IF v = None THEN <<"N","o","n","e">> ELSE v

\* str.strip(", ")
RECURSIVE LStripSep(_)
LStripSep(s) == IF s # << >> /\ Head(s) \in {",", " "} THEN LStripSep(Tail(s)) ELSE s
RECURSIVE RStripSep(_)
RStripSep(s) ==
    IF s # << >> /\ s[Len(s)] \in {",", " "} THEN RStripSep(SubSeq(s, 1, Len(s) - 1)) ELSE s
StripSep(s) == RStripSep(LStripSep(s))

\* str.split(',')
RECURSIVE SplitComma(_)
SplitComma(s) ==
    LET commas == {i \in 1..Len(s) : s[i] = ","}
    IN  IF commas = {} THEN <<s>>
        ELSE LET c == CHOOSE i \in commas : \A j \in commas : i <= j
             IN  <<SubSeq(s, 1, c - 1)>> \o SplitComma(SubSeq(s, c + 1, Len(s)))

RECURSIVE Pow10(_)
Pow10(f) == IF f = 0 THEN 1 ELSE 10 * Pow10(f - 1)

RECURSIVE DropZeros(_)
DropZeros(s) ==
    IF s # << >> /\ s[Len(s)] = "0" THEN DropZeros(SubSeq(s, 1, Len(s) - 1)) ELSE s

\* the digits of n, zero-padded on the left to f places
RECURSIVE Padded(_, _)
Padded(n, f) == IF f = 0 THEN << >> ELSE Padded(n \div 10, f - 1) \o <<Digits[(n % 10) + 1]>>

\* f"{x}" of a float in the range where repr uses no exponent
FloatStr(x) ==
    LET whole == Str(x.n \div Pow10(x.f))
        frac == DropZeros(Padded(x.n % Pow10(x.f), x.f))
    IN  (IF x.neg THEN <<"-">> ELSE << >>) \o whole \o <<".">>
        \o (IF frac = << >> THEN <<"0">> ELSE frac)

\* d.get('latitude') when the payload has no such number
NoNumber == [kind |-> "None", neg |-> FALSE, n |-> 0, f |-> 0]

\* bool(x) of None or a float
Truthy(x) == x # NoNumber /\ x.n # 0

\* f"{lat}, {lng}"
CommaSpace(a, b) == a \o <<",", " ">> \o b

\* what a handler of the dialog did: the geocoders it asked and the box it showed
Did(op, trigger, txt, requests, box) ==
    [op |-> op, trigger |-> trigger, txt |-> txt, requests |-> requests, box |-> box]

NoBox == ""

\* gps_timer after on_gps_changed: start(800) restarts a running timer
TimerAfterChange_KeepRunning(valid) ==
    IF valid THEN (IF gps_timer >= 0 THEN gps_timer ELSE DebounceMs) ELSE -1

TimerAfterChange(valid) == IF valid THEN DebounceMs ELSE -1

\* on_gps_changed with the button enabled whatever the text is
on_gps_changed_Enabled(text) ==
    LET valid == is_valid_gps(Strip(text))
    IN  /\ fetch_btn' = TRUE
        /\ gps_timer' = TimerAfterChange(valid)
        /\ quiet' = 0
        /\ fired' = 0
        /\ changes' = changes + 1
        /\ burst' = IF changes > 0 /\ quiet < DebounceMs THEN burst + 1 ELSE 1

\* gps_coords.textChanged -> on_gps_changed(text)
on_gps_changed(text) ==
    LET valid == is_valid_gps(Strip(text))
    IN  /\ fetch_btn' = valid
        /\ gps_timer' = TimerAfterChange(valid)
        /\ quiet' = 0
        /\ fired' = 0
        /\ changes' = changes + 1
        /\ burst' = IF changes > 0 /\ quiet < DebounceMs THEN burst + 1 ELSE 1

\* QLineEdit.setText on gps_coords: textChanged is emitted when the text changes
setText(text) ==
    /\ gps_edit' = text
    /\ IF text # gps_edit
       THEN on_gps_changed(text)
       ELSE UNCHANGED <<fetch_btn, gps_timer, quiet, fired, changes, burst>>

\* the user types into gps_coords
edit_gps(text) ==
    /\ text # gps_edit
    /\ changes < MaxChanges
    /\ setText(text)
    /\ shown' = Did("on_gps_changed", "user", text, << >>, NoBox)
    /\ UNCHANGED <<location_edit, auto_gps_btn, progress, geolocator, resolved>>
    /\ UNCHANGED <<ledgerVars, cropVars, ordinalVars, callVars>>

\* time passes; a timer that has run out is served before more time passes
tick ==
    /\ gps_timer # 0
    /\ gps_timer' = IF gps_timer > 0 THEN Max(0, gps_timer - TickMs) ELSE -1
    /\ quiet' = Min(DebounceMs, quiet + TickMs)
    /\ UNCHANGED <<gps_edit, location_edit, fetch_btn, auto_gps_btn, progress,
                   geolocator, fired, changes, burst, shown, resolved>>
    /\ UNCHANGED <<ledgerVars, cropVars, ordinalVars, callVars>>

\* what geolocator.reverse((lat, lng), timeout=10) does
ReverseOutcomes == {"address", "none", "exception"}
\* loc.address of the place found
ReverseAddress == <<"D","h","a","k","a">>

\* fetch_from_gps, run by the timer ("timer") or by fetch_btn ("button")
fetch_from_gps(trigger, reverse) ==
    LET txt == Strip(gps_edit)
        parts == SplitComma(txt)
        lat == float(Strip(parts[1]))
        lng == float(Strip(parts[2]))
    IN  /\ fired' = IF trigger = "timer" THEN fired + 1 ELSE fired
        /\ IF ~is_valid_gps(txt) \/ ~geolocator
           THEN /\ shown' = Did("fetch_from_gps", trigger, txt, << >>, NoBox)
                /\ gps_timer' = IF trigger = "timer" THEN -1 ELSE gps_timer
                /\ UNCHANGED <<location_edit, fetch_btn, progress, resolved>>
           ELSE /\ location_edit' =
                      CASE reverse = "address" -> ReverseAddress
                        [] reverse = "none" -> CommaSpace(FloatStr(lat), FloatStr(lng))
                        [] OTHER -> location_edit
                /\ shown' = Did("fetch_from_gps", trigger, txt, <<reverse>>,
                                IF reverse = "exception" THEN "Geocode failed" ELSE NoBox)
                /\ resolved' = (resolved \/ reverse # "exception")
                /\ progress' = FALSE
                /\ fetch_btn' = TRUE
                /\ gps_timer' = -1
        /\ UNCHANGED <<gps_edit, auto_gps_btn, geolocator, quiet, changes, burst>>
        /\ UNCHANGED <<ledgerVars, cropVars, ordinalVars, callVars>>

\* gps_timer.timeout -> fetch_from_gps
gps_timer_timeout ==
    /\ gps_timer = 0
    /\ \E reverse \in ReverseOutcomes : fetch_from_gps("timer", reverse)

\* fetch_btn.clicked -> fetch_from_gps
fetch_btn_clicked ==
    /\ fetch_btn
    /\ \E reverse \in ReverseOutcomes : fetch_from_gps("button", reverse)

\* a JSON number
Number(n, f) == [kind |-> "num", neg |-> FALSE, n |-> n, f |-> f]

\* what requests.get('https://ipapi.co/json/') and r.json() give: raises stands
\* for an exception of either
FirstResponse(raises, status_code, latitude, longitude, city, region, country_name) ==
    [raises |-> raises, status_code |-> status_code, latitude |-> latitude,
     longitude |-> longitude, city |-> city, region |-> region,
     country_name |-> country_name]

FirstResponses ==
    { FirstResponse(TRUE, 0, NoNumber, NoNumber, None, None, None),
      FirstResponse(FALSE, 500, Number(235, 1), Number(90, 0), <<"D">>, <<"R">>, <<"B">>),
      FirstResponse(FALSE, 200, NoNumber, NoNumber, None, None, None),
      FirstResponse(FALSE, 200, Number(235, 1), Number(90, 0), <<"D">>, None, <<"B">>),
      FirstResponse(FALSE, 200, Number(515, 1), Number(0, 0), <<"D">>, None, <<"B">>) }

\* what requests.get('https://ipinfo.io/json') and r.json() give; loc is None
\* when the payload has no 'loc'
SecondResponse(raises, loc, city, country) ==
    [raises |-> raises, loc |-> loc, city |-> city, country |-> country]

SecondResponses ==
    { SecondResponse(TRUE, None, None, None),
      SecondResponse(FALSE, None, None, None),
      SecondResponse(FALSE, <<"1">>, <<"D">>, <<"B">>),
      SecondResponse(FALSE, <<"x",",","2">>, <<"D">>, <<"B">>),
      SecondResponse(FALSE, <<"1",".","5",",","2">>, None, <<"B">>) }

\* lines 721-725: the first provider's answer is used
FirstUsable(a) ==
    /\ ~a.raises
    /\ a.status_code = 200
    /\ Truthy(a.latitude) /\ Truthy(a.longitude)

\* auto_gps_btn.clicked -> fetch_current_location; a and b are what the two
\* providers answer (b is asked only when a is not used)
fetch_current_location(a, b) ==
    LET coords == CommaSpace(FloatStr(a.latitude), FloatStr(a.longitude))
        addr == StripSep(PyStr(a.city) \o <<",", " ">> \o PyStr(a.region)
                         \o <<",", " ">> \o PyStr(a.country_name))
        loc == SplitComma(IF b.loc = None THEN EmptyText ELSE b.loc)
        lat == float(Strip(loc[1]))
        lng == float(Strip(loc[2]))
        keep == UNCHANGED <<gps_edit, location_edit, fetch_btn, gps_timer, quiet,
                            fired, changes, burst, resolved>>
    IN  /\ auto_gps_btn
        /\ changes < MaxChanges
        /\ IF FirstUsable(a)
           THEN /\ setText(coords)
                /\ location_edit' = IF addr # EmptyText THEN addr ELSE coords
                /\ shown' = Did("fetch_current_location", "button", coords,
                                <<"ipapi.co">>, NoBox)
                /\ resolved' = TRUE
                \* return at line 729: the finally of the second try is not run
                /\ progress' = TRUE
                /\ auto_gps_btn' = FALSE
           ELSE /\ CASE b.raises ->
                        /\ keep
                        /\ shown' = Did("fetch_current_location", "button", EmptyText,
                                        <<"ipapi.co", "ipinfo.io">>, "Location failed")
                     [] ~b.raises /\ Len(loc) # 2 ->
                        /\ keep
                        /\ shown' = Did("fetch_current_location", "button", EmptyText,
                                        <<"ipapi.co", "ipinfo.io">>, NoBox)
                     [] ~b.raises /\ Len(loc) = 2 /\ ValueError \in {lat, lng} ->
                        /\ keep
                        /\ shown' = Did("fetch_current_location", "button", EmptyText,
                                        <<"ipapi.co", "ipinfo.io">>, "Location failed")
                     [] OTHER ->
                        /\ setText(CommaSpace(FloatStr(lat), FloatStr(lng)))
                        /\ location_edit' = CommaSpace(PyStr(b.city), PyStr(b.country))
                        /\ shown' = Did("fetch_current_location", "button",
                                        CommaSpace(FloatStr(lat), FloatStr(lng)),
                                        <<"ipapi.co", "ipinfo.io">>, NoBox)
                        /\ resolved' = TRUE
                /\ progress' = FALSE
                /\ auto_gps_btn' = TRUE
        /\ UNCHANGED geolocator
        /\ UNCHANGED <<ledgerVars, cropVars, ordinalVars, callVars>>

\* a value of the object that json.loads returns: the key may be absent, and
\* a value is a number, a string, a boolean or null
JsonValue(t, num, str) == [t |-> t, num |-> num, str |-> str]
Absent == JsonValue("absent", NoNumber, EmptyText)
JsonNull == JsonValue("null", NoNumber, EmptyText)
JsonNumber(x) == JsonValue("number", x, EmptyText)
JsonString(s) == JsonValue("string", NoNumber, s)
JsonTrue == JsonValue("true", NoNumber, EmptyText)

\* the message of the page: text that json.loads rejects ("invalid"), an
\* array ("array") or an object ("object") with its three keys
Message(json, lat, lng, address) ==
    [json |-> json, lat |-> lat, lng |-> lng, address |-> address]

KeyError == [kind |-> "KeyError"]
TypeError == [kind |-> "TypeError"]
Raised == {KeyError, TypeError, ValueError}

\* float(data[key]): float(True) is 1.0, float of a string parses it
FloatOf(v) ==
    CASE v.t = "absent" -> KeyError
      [] v.t = "null" -> TypeError
      [] v.t = "number" -> v.num
      [] v.t = "true" -> Number(1, 0)
      [] OTHER -> float(Strip(v.str))

\* str(data['address']) of a key that is there
StrOf(v) ==
    CASE v.t = "null" -> None
      [] v.t = "true" -> <<"T","r","u","e">>
      [] v.t = "number" -> FloatStr(v.num)
      [] OTHER -> v.str

\* f"{x:.6f}"
Fixed6(x) ==
    CASE x.kind = "nan" -> <<"n","a","n">>
      [] x.kind = "inf" -> (IF x.neg THEN <<"-">> ELSE << >>) \o <<"i","n","f">>
      [] OTHER -> (IF x.neg THEN <<"-">> ELSE << >>) \o Str(x.n \div Pow10(x.f))
                  \o <<".">> \o Padded((x.n % Pow10(x.f)) * Pow10(6 - x.f), 6)

\* locationPicked is emitted: every step of receive before emit went through
Emits(message) ==
    /\ message.json = "object"
    /\ FloatOf(message.lat) \notin Raised
    /\ FloatOf(message.lng) \notin Raised
    /\ message.address.t # "absent"

\* locationPicked -> on_map_pick(lat, lng, address)
on_map_pick(lat, lng, address) ==
    /\ setText(CommaSpace(Fixed6(lat), Fixed6(lng)))
    /\ location_edit' = address
    /\ shown' = Did("on_map_pick", "bridge", CommaSpace(Fixed6(lat), Fixed6(lng)),
                    << >>, NoBox)

\* Bridge.receive(message), with the slot connected to locationPicked; an
\* exception is printed and nothing else happens
receive(message) ==
    /\ changes < MaxChanges
    /\ IF Emits(message)
       THEN on_map_pick(FloatOf(message.lat), FloatOf(message.lng),
                        PyStr(StrOf(message.address)))
       ELSE /\ shown' = Did("receive", "bridge", EmptyText, << >>, NoBox)
            /\ UNCHANGED <<gps_edit, location_edit, fetch_btn, gps_timer, quiet,
                           fired, changes, burst>>
    /\ UNCHANGED <<auto_gps_btn, progress, geolocator, resolved>>
    /\ UNCHANGED <<ledgerVars, cropVars, ordinalVars, callVars>>

\* what the page sends
Messages ==
    { Message("invalid", Absent, Absent, Absent),
      Message("object", JsonNumber(Number(235, 1)), JsonNumber(Number(90, 0)), Absent),
      Message("object", JsonString(<<"x">>), JsonNumber(Number(90, 0)),
              JsonString(<<"M">>)),
      Message("object", JsonTrue, JsonNumber(Number(90, 0)), JsonString(<<"M">>)),
      Message("object", JsonNumber(Number(235, 1)), JsonNumber(Number(90, 0)),
              JsonString(<<"M">>)) }

Receive == \E message \in Messages : receive(message)

\* what the user types into gps_coords
TypedGps == {<< >>, <<"1",",","2">>, <<"3",",","4"," ">>}

EditGps == \E text \in TypedGps : edit_gps(text)

\* the second provider answers only when it is asked
FetchCurrentLocation ==
    \E a \in FirstResponses :
        \E b \in IF FirstUsable(a) THEN {SecondResponse(TRUE, None, None, None)}
                 ELSE SecondResponses :
            fetch_current_location(a, b)

\* a LandDialog after __init__
InitDialog ==
    /\ LedgerIdle /\ CropIdle /\ OrdinalIdle /\ CallIdle
    /\ gps_edit = << >>
    /\ location_edit = << >>
    /\ fetch_btn = FALSE
    /\ auto_gps_btn = TRUE
    /\ progress = FALSE
    /\ gps_timer = -1
    /\ geolocator \in BOOLEAN
    /\ quiet = 0
    /\ fired = 0
    /\ changes = 0
    /\ burst = 0
    /\ shown = Did("__init__", "", EmptyText, << >>, NoBox)
    /\ resolved = FALSE

NextDialog ==
    \/ EditGps
    \/ tick
    \/ gps_timer_timeout
    \/ fetch_btn_clicked
    \/ FetchCurrentLocation
    \/ Receive

SpecDialog == InitDialog /\ [][NextDialog]_vars

\* the event loop keeps running: time passes and a timer that ran out is served
FairDialog == SpecDialog /\ WF_vars(tick) /\ WF_vars(gps_timer_timeout)

----------------------------------------------------------------------------
(* Calls of the service functions.  call is drawn by InitCalls and each     *)
(* action below runs one function on it.                                    *)

NotReturned == [done |-> FALSE]
Returned(value) == [done |-> TRUE, value |-> value]

\* longest text handed to is_valid_gps
MaxGpsLen == 5

\* characters typed into LandDialog.gps_coords
GpsAlphabet == {"1", ".", ",", "-", " ", "a"}

\* every text of at most n characters
TextsUpTo(n) == UNION {[1..k -> GpsAlphabet] : k \in 0..n}

IsValidGpsCalls == {[fn |-> "is_valid_gps", txt |-> t] : t \in TextsUpTo(MaxGpsLen)}

\* LandDialog.is_valid_gps(txt)
IsValidGps ==
    /\ call.fn = "is_valid_gps" /\ ret = NotReturned
    /\ ret' = Returned(is_valid_gps(call.txt))
    /\ UNCHANGED <<call, ledgerVars, cropVars, ordinalVars, dialogVars>>

\* crop names of irrig_crop_combo, and names no combo holds
IrrigationCrops ==
    { <<"R","i","c","e"," ","(","A","m","a","n",")">>,
      <<"W","h","e","a","t">>,
      <<"r","i","c","e">>,
      <<"U","p","l","a","n","d"," ","R","i","c","e">>,
      << >>,
      <<"R","i","c"," ","e">> }
WaterChoices == {"Low", "Medium", "High", "low"}

Rice == <<"R","i","c","e">>

\* the order of the tests with the crop first
recommend_irrigation_RiceFirst(crop_name, water_availability) ==
    IF Contains(Rice, crop_name) THEN "Flood irrigation, 5-10cm depth"
    ELSE IF water_availability = "Low" THEN "Drip irrigation, consider mulching"
    ELSE IF water_availability = "High" THEN "Sprinkler irrigation"
    ELSE "Furrow irrigation, every 7-10 days"

\* IrrigationService.recommend_irrigation
recommend_irrigation(crop_name, water_availability) ==
    IF water_availability = "Low" THEN "Drip irrigation, consider mulching"
    ELSE IF Contains(Rice, crop_name) THEN "Flood irrigation, 5-10cm depth"
    ELSE IF water_availability = "High" THEN "Sprinkler irrigation"
    ELSE "Furrow irrigation, every 7-10 days"

IrrigationCalls ==
    {[fn |-> "recommend_irrigation", crop_name |-> c, water_availability |-> w] :
        c \in IrrigationCrops, w \in WaterChoices}

RecommendIrrigation ==
    /\ call.fn = "recommend_irrigation" /\ ret = NotReturned
    /\ ret' = Returned(recommend_irrigation(call.crop_name, call.water_availability))
    /\ UNCHANGED <<call, ledgerVars, cropVars, ordinalVars, dialogVars>>

\* largest number of records in pest_df
MaxPests == 2

\* values of the pest_disease column
PestNames == {<<"A","b">>, <<"b">>, <<"C">>}

\* the pest_disease column of pest_df in row order; empty for the empty frame
RECURSIVE PestTables(_)
PestTables(n) ==
    IF n = 0 THEN {<< >>}
    ELSE PestTables(n - 1) \cup
         {Append(t, p) : t \in {d \in PestTables(n - 1) : Len(d) = n - 1}, p \in PestNames}

Descriptions == {<< >>, <<"a","b">>, <<"x","A","B"," ","c">>, <<"z">>}

Unknown == <<"U","n","k","n","o","w","n">>

\* the last of the matching rows
FirstOf_Last(rows) == CHOOSE i \in rows : \A j \in rows : j <= i

\* next(...) takes the first row the generator yields
FirstOf(rows) == CHOOSE i \in rows : \A j \in rows : i <= j

\* PestService.identify_pest
identify_pest(pest_df, description) ==
    LET rows == {i \in 1..Len(pest_df) : Contains(Lower(pest_df[i]), Lower(description))}
    IN  IF description = EmptyText \/ pest_df = << >> THEN Unknown
        ELSE IF rows = {} THEN Unknown
        ELSE pest_df[FirstOf(rows)]

PestCalls ==
    {[fn |-> "identify_pest", pest_df |-> t, description |-> d] :
        t \in PestTables(MaxPests), d \in Descriptions}

IdentifyPest ==
    /\ call.fn = "identify_pest" /\ ret = NotReturned
    /\ ret' = Returned(identify_pest(call.pest_df, call.description))
    /\ UNCHANGED <<call, ledgerVars, cropVars, ordinalVars, dialogVars>>

\* one row of fertilizer_data.csv as FertilizerService.__init__ keeps it
Profile(n, p, k, om, lime) ==
    [nitrogen |-> n, phosphorus |-> p, potassium |-> k, organic_matter |-> om, lime |-> lime]

Profiles == {Profile(40, 20, 25, 2, 100), Profile(0, 0, 0, 0, 0)}

FertilizerCrops == {"Wheat", "Jute"}

\* the dicts FertilizerService.fertilizers can be; the empty one when the file
\* is missing
Fertilizers == UNION {[keys -> Profiles] : keys \in SUBSET FertilizerCrops}

\* dict.get(key, 0)
Get(fert_data, key) == IF key \in DOMAIN fert_data THEN fert_data[key] ELSE 0

\* the f-string of lines 237-242: the fixed words and the five numbers in it
FertilizerText(crop_name, fert_data) ==
    [text |-> "Recommended for", crop_name |-> crop_name,
     nitrogen |-> Str(Get(fert_data, "nitrogen")),
     phosphorus |-> Str(Get(fert_data, "phosphorus")),
     potassium |-> Str(Get(fert_data, "potassium")),
     organic_matter |-> Str(Get(fert_data, "organic_matter")),
     lime |-> Str(Get(fert_data, "lime"))]

NoRecommendation == [text |-> "No recommendation"]

\* the text without the test of fert_data
recommend_fertilizer_Always(fertilizers, crop_name) ==
    LET fert_data == IF crop_name \in DOMAIN fertilizers THEN fertilizers[crop_name]
                     ELSE << >>
    IN  FertilizerText(crop_name, fert_data)

\* FertilizerService.recommend_fertilizer; {} is the empty function << >>
recommend_fertilizer(fertilizers, crop_name) ==
    LET fert_data == IF crop_name \in DOMAIN fertilizers THEN fertilizers[crop_name]
                     ELSE << >>
    IN  IF DOMAIN fert_data # {} THEN FertilizerText(crop_name, fert_data)
        ELSE NoRecommendation

FertilizerCalls ==
    {[fn |-> "recommend_fertilizer", fertilizers |-> f, crop_name |-> c] :
        f \in Fertilizers, c \in FertilizerCrops \cup {"Maize"}}

RecommendFertilizer ==
    /\ call.fn = "recommend_fertilizer" /\ ret = NotReturned
    /\ ret' = Returned(recommend_fertilizer(call.fertilizers, call.crop_name))
    /\ UNCHANGED <<call, ledgerVars, cropVars, ordinalVars, dialogVars>>

\* MarketService.market_prices
market_prices ==
    ("Rice (Aman)" :> 30000) @@
    ("Rice (Boro)" :> 35000) @@
    ("Rice (Aus)" :> 28000) @@
    ("Wheat" :> 32000) @@
    ("Jute" :> 40000) @@
    ("Maize" :> 25000) @@
    ("Potato" :> 20000) @@
    ("Onion" :> 30000) @@
    ("Garlic" :> 60000) @@
    ("Tomato" :> 25000) @@
    ("Chili" :> 50000) @@
    ("Banana" :> 20000) @@
    ("Mango" :> 40000)

\* crop_costs of generate_profit_loss_chart
crop_costs ==
    ("Rice (Aman)" :> 5000) @@
    ("Rice (Boro)" :> 6000) @@
    ("Wheat" :> 4000) @@
    ("Maize" :> 3000) @@
    ("Tomato" :> 2500)

\* crop names of the catalog: in both tables, in market_prices only, in neither
ChartCrops == {"Rice (Aman)", "Jute", "Lentil"}
\* soil_type of the catalog, soil_type of the user's lands
ChartSoils == {<<"c","l","a","y">>, <<"S","a","n","d","y">>}
LandSoils == {<<"C","l","a","y">>, <<"L","o","a","m">>}
\* yield_per_hectare in tenths of a ton: 5.0 and 2.4
ChartYields == {50, 24}

ChartEntries ==
    {[name |-> n, soil_type |-> s, yield_per_hectare |-> y] :
        n \in ChartCrops, s \in ChartSoils, y \in ChartYields}

\* CropService.crops: entries with distinct keys in dict order
RECURSIVE ChartCatalogs(_)
ChartCatalogs(n) ==
    IF n = 0 THEN {<< >>}
    ELSE ChartCatalogs(n - 1) \cup
         {Append(c, e) : c \in {d \in ChartCatalogs(n - 1) : Len(d) = n - 1},
                         e \in ChartEntries}

\* the soil_type column of the rows SELECT * FROM lands WHERE user_id = ? gives
RECURSIVE LandRows(_)
LandRows(n) ==
    IF n = 0 THEN {<< >>}
    ELSE LandRows(n - 1) \cup
         {Append(l, s) : l \in {d \in LandRows(n - 1) : Len(d) = n - 1}, s \in LandSoils}

\* dict.get(c, 0)
GetOr0(table, c) == IF c \in DOMAIN table THEN table[c] ELSE 0

\* the comparison without lower()
OnSomeLand_CaseSensitive(soil_type, user_lands) ==
    \E i \in 1..Len(user_lands) : user_lands[i] = soil_type

\* any(l[4].lower() == crops[c]["soil_type"].lower() for l in lands)
OnSomeLand(soil_type, user_lands) ==
    \E i \in 1..Len(user_lands) : Lower(user_lands[i]) = Lower(soil_type)

\* line 1440, in tenths of a BDT
Profit(c) ==
    GetOr0(market_prices, c.name) * c.yield_per_hectare - 10 * GetOr0(crop_costs, c.name)

\* MainWindow.generate_profit_loss_chart: the message it sets and the bars it draws
generate_profit_loss_chart(catalog, user_lands) ==
    LET Candidate(c) == OnSomeLand(c.soil_type, user_lands)
        chosen == SelectSeq(catalog, Candidate)
    IN  IF user_lands = << >>
        THEN [text |-> "No lands to analyze.", crops |-> << >>, profits |-> << >>]
        ELSE IF chosen = << >>
        THEN [text |-> "No matching crops for your soil.", crops |-> << >>,
              profits |-> << >>]
        ELSE [text |-> "Profit/Loss chart generated.",
              crops |-> [i \in 1..Len(chosen) |-> chosen[i].name],
              profits |-> [i \in 1..Len(chosen) |-> Profit(chosen[i])]]

ChartCalls ==
    {[fn |-> "generate_profit_loss_chart", crops |-> c, lands |-> l] :
        c \in {d \in ChartCatalogs(MaxCrops) :
                  \A i, j \in 1..Len(d) : i # j => d[i].name # d[j].name},
        l \in LandRows(MaxLands)}

GenerateProfitLossChart ==
    /\ call.fn = "generate_profit_loss_chart" /\ ret = NotReturned
    /\ ret' = Returned(generate_profit_loss_chart(call.crops, call.lands))
    /\ UNCHANGED <<call, ledgerVars, cropVars, ordinalVars, dialogVars>>

\* plaintexts typed into the password fields
Plaintexts == {<< >>, <<"s">>, <<"s","e","c","r","e","t">>, <<"S","e","c","r","e","t">>}

\* hash_password(p) twice, and verify_password of the first hash with q
VerifyCalls == {[fn |-> "verify_password", p |-> p, q |-> q] : p, q \in Plaintexts}

VerifyPassword ==
    /\ call.fn = "verify_password" /\ ret = NotReturned
    /\ ret' = Returned([stored |-> hash_password(call.p), again |-> hash_password(call.p),
                        ok |-> verify_password(hash_password(call.p), call.q)])
    /\ UNCHANGED <<call, ledgerVars, cropVars, ordinalVars, dialogVars>>

\* the reference tables at startup: the file is there and complete ("ok"),
\* is not there ("missing"), is there but pd.read_csv cannot parse or read it
\* ("unparsable"), or parses but lacks a column the code reads ("no_column")
TableStates == {"ok", "missing", "unparsable", "no_column"}

NotRaised == ""

\* CropService.__init__: except Exception leaves crops = {}
CropServiceInit(table) ==
    [raised |-> NotRaised, data |-> IF table = "ok" THEN "loaded" ELSE "empty"]

\* PestService.__init__: only FileNotFoundError is caught, and no column is
\* read before identify_pest
PestServiceInit(table) ==
    CASE table = "ok" -> [raised |-> NotRaised, data |-> "loaded"]
      [] table = "missing" -> [raised |-> NotRaised, data |-> "empty"]
      [] table = "no_column" -> [raised |-> NotRaised, data |-> "no_column"]
      [] OTHER -> [raised |-> "ParserError", data |-> "unset"]

\* FertilizerService.__init__: only FileNotFoundError is caught, and the
\* dict comprehension reads the columns
FertilizerServiceInit(table) ==
    CASE table = "ok" -> [raised |-> NotRaised, data |-> "loaded"]
      [] table = "missing" -> [raised |-> NotRaised, data |-> "empty"]
      [] table = "no_column" -> [raised |-> "KeyError", data |-> "unset"]
      [] OTHER -> [raised |-> "ParserError", data |-> "unset"]

NotBuilt == [raised |-> NotRaised, data |-> "unset"]

\* a query on a service: a hit or the no-result value on a loaded table, the
\* no-result value on an empty one, KeyError on pest_df without its column
QueryOn(data) ==
    CASE data = "loaded" -> "result"
      [] data = "empty" -> "no-result"
      [] data = "no_column" -> "KeyError"
      [] OTHER -> "no service"

\* MainWindow.__init__, lines 923-925: the three services in turn; an
\* exception of one constructor ends the construction of the window
InitializeServices(crop, pest, fertilizer) ==
    LET c == CropServiceInit(crop)
        p == PestServiceInit(pest)
        f == IF p.raised = NotRaised THEN FertilizerServiceInit(fertilizer) ELSE NotBuilt
    IN  [raised |-> IF p.raised # NotRaised THEN p.raised ELSE f.raised,
         crops |-> c.data, pest_df |-> p.data, fertilizers |-> f.data,
         recommend_crop |-> QueryOn(c.data),
         identify_pest |-> QueryOn(p.data),
         recommend_fertilizer |-> QueryOn(f.data)]

ServiceCalls ==
    {[fn |-> "services", crop |-> c, pest |-> p, fertilizer |-> f] :
        c, p, f \in TableStates}

Services ==
    /\ call.fn = "services" /\ ret = NotReturned
    /\ ret' = Returned(InitializeServices(call.crop, call.pest, call.fertilizer))
    /\ UNCHANGED <<call, ledgerVars, cropVars, ordinalVars, dialogVars>>

InitCalls ==
    /\ LedgerIdle /\ CropIdle /\ OrdinalIdle /\ DialogIdle
    /\ call \in IsValidGpsCalls \cup IrrigationCalls \cup PestCalls \cup FertilizerCalls
                \cup ChartCalls \cup VerifyCalls \cup ServiceCalls
    /\ ret = NotReturned

NextCalls ==
    \/ IsValidGps
    \/ RecommendIrrigation
    \/ IdentifyPest
    \/ RecommendFertilizer
    \/ GenerateProfitLossChart
    \/ VerifyPassword
    \/ Services

SpecCalls == InitCalls /\ [][NextCalls]_vars

----------------------------------------------------------------------------
(* Properties.                                                              *)

\* two characters that are the same letter, whatever their case
SameLetter(x, y) ==
    x = y \/ \E k \in DOMAIN UpperCase : {x, y} = {UpperCase[k], LowerCase[k]}

EqualIgnoringCase(a, b) ==
    Len(a) = Len(b) /\ \A i \in 1..Len(a) : SameLetter(a[i], b[i])

ContainsIgnoringCase(s, t) ==
    \E k \in 0..(Len(s) - Len(t)) : \A i \in 1..Len(t) : SameLetter(s[k + i], t[i])

\* positions in the catalog of the crops that suit soil type S and season T
Suitable(S, T) ==
    {k \in 1..Len(crops) : /\ EqualIgnoringCase(crops[k].soil_type, S)
                           /\ ContainsIgnoringCase(crops[k].season, T)}

\* the j-th smallest element of a set of numbers
Nth(set, j) == CHOOSE k \in set : Cardinality({m \in set : m < k}) = j - 1

\* C1: recommend_crop(S, T) returns exactly the catalog crops whose soil type
\* equals S ignoring case and whose season text contains T ignoring case, in
\* catalog order; when there is none it returns the one-element sequence
\* ["No suitable crops"], never an empty sequence.
C1_RecommendCrop ==
    recs.called =>
        LET q == Suitable(recs.soil_type, recs.season)
        IN  /\ recs.value # << >>
            /\ q = {} => recs.value = <<<<"N", "o", " ", "s", "u", "i", "t", "a", "b", "l", "e", " ", "c", "r", "o", "p", "s">>>>
            /\ q # {} => /\ Len(recs.value) = Cardinality(q)
                         /\ \A j \in 1..Len(recs.value) :
                                recs.value[j] = crops[Nth(q, j)].name

\* a call that returned a crop stored in another case than the query's, with
\* a season text longer than the query's
C1_Witness ==
    /\ recs.called
    /\ \E k \in 1..Len(crops) :
           /\ recs.value = <<crops[k].name>>
           /\ crops[k].soil_type # recs.soil_type
           /\ Len(crops[k].season) > Len(recs.season)
    /\ Len(crops) > 1

\* C2: when no catalog crop suits the selection, get_crop_recommendations
\* treats the sentinel as "no results": it raises nothing and never looks the
\* sentinel up in the crop catalog.
C2_SentinelIsNoResult ==
    (crop_output.ran /\ Suitable(recs.soil_type, recs.season) = {}) =>
        /\ crop_output.raised = ""
        /\ \A i \in 1..Len(crop_output.lookups) : crop_output.lookups[i] # <<"N", "o", " ", "s", "u", "i", "t", "a", "b", "l", "e", " ", "c", "r", "o", "p", "s">>

\* the password typed is the one whose hash is stored for the window's user
CorrectPassword(password) ==
    \E i \in 1..Len(users) :
        users[i].id = user_id /\ users[i].password = hash_password(password)

OwnLand(id) == \E r \in lands : r.id = id /\ r.user_id = user_id

\* every id a card can be bound to, and one that was never generated; the
\* properties below look at the steps of confirm_delete_land, which are the
\* steps that leave its name in last.op
LandIds == 1..(MaxLands + 1)

\* C3: confirm_delete_land on a land L of the window's user U with U's
\* correct password deletes L: afterwards L is absent from U's land list and
\* every other land row, of U and of every other user, is unchanged.
C3_DeleteOwnLand ==
    [][\A id \in LandIds, pr \in Prompts :
          (/\ last'.op = "confirm_delete_land"
           /\ confirm_delete_land(id, "Yes", pr[1], pr[2])
           /\ pr[2] /\ pr[1] # << >> /\ CorrectPassword(pr[1])
           /\ OwnLand(id))
          => /\ lands' = {r \in lands : r.id # id}
             /\ \A i \in 1..Len(view') : view'[i] # id
             /\ last'.result = "deleted"]_vars

\* a land was deleted and another land is still stored
C3_Witness ==
    /\ last.op = "confirm_delete_land" /\ last.result = "deleted"
    /\ lands # {}
    /\ \A r \in lands : r.id # last.land_id

\* C4: the delete proceeds only when the hash of the supplied password equals
\* the stored hash of the window's user: with any other answer to the prompt
\* (a mismatching password, an empty one, a cancelled prompt) the lands table
\* is unchanged, and a non-empty mismatching password is reported as
\* "Access Denied".
C4_WrongPasswordDeletesNothing ==
    [][\A id \in LandIds, pr \in Prompts :
          (/\ last'.op = "confirm_delete_land"
           /\ confirm_delete_land(id, "Yes", pr[1], pr[2])
           /\ ~(pr[2] /\ CorrectPassword(pr[1])))
          => /\ lands' = lands
             /\ pr[1] # << >> => /\ last'.result = "denied"
                                 /\ last'.msg = "Incorrect password!"]_vars

\* a wrong password was given while the window's user had a land, still stored
C4_Witness ==
    /\ last.op = "confirm_delete_land" /\ last.result = "denied"
    /\ \E r \in lands : r.user_id = user_id

\* C5: a delete in user V's window with V's correct password against a land
\* id that does not exist or belongs to another user removes no row and is
\* reported as "Not Found", which is not the "Access Denied" report.
C5_ForeignOrAbsentLand ==
    [][\A id \in LandIds, pr \in Prompts :
          (/\ last'.op = "confirm_delete_land"
           /\ confirm_delete_land(id, "Yes", pr[1], pr[2])
           /\ pr[2] /\ pr[1] # << >> /\ CorrectPassword(pr[1])
           /\ ~OwnLand(id))
          => /\ lands' = lands
             /\ last'.result = "not_found"
             /\ last'.msg = "Land not found."]_vars

\* a delete was tried on a stored land of another user
C5_Witness ==
    /\ last.op = "confirm_delete_land" /\ last.result = "not_found"
    /\ \E r \in lands : r.id = last.land_id /\ r.user_id # user_id

\* x > 0 on floats
Positive(x) ==
    /\ x.kind \in {"num", "inf"}
    /\ ~x.neg
    /\ x.kind = "num" => x.n > 0

\* a form save_land has to reject: empty location, an area that is not a
\* number greater than 0, or a non-empty GPS text that fails is_valid_gps
BadForm(location, area, gps_coords) ==
    \/ Strip(location) = << >>
    \/ float(Strip(area)) = ValueError
    \/ ~Positive(float(Strip(area)))
    \/ Strip(gps_coords) # << >> /\ ~is_valid_gps(Strip(gps_coords))

\* C6: save_land rejects an empty location, an area that is non-numeric or
\* not greater than 0, and a non-empty GPS string that fails is_valid_gps; on
\* each rejection no row is inserted and the dialog is not accepted: a step
\* of save_land that inserts a row or accepts the dialog is the step of no
\* such form.
C6_SaveLandRejects ==
    [][last'.op = "save_land" =>
          \/ lands' = lands /\ last'.result # "accepted"
          \/ \A loc \in Locations, a \in AreaTexts, soil \in SoilTypes, g \in GpsTexts :
                 ~(/\ BadForm(loc, a, g)
                   /\ add_land(loc, a, soil, g) \/ check_lands_add(loc, a, soil, g))]_vars

\* a form was rejected for its GPS text alone
C6_Witness ==
    /\ last.op = "save_land" /\ last.result = "rejected"
    /\ last.msg = "Invalid GPS format."

\* C7: a land with a location, a positive area, a soil type and an empty GPS
\* field is stored with a null GPS value and appears in the owner's list.
C7_EmptyGpsIsStored ==
    [][\A loc \in Locations, a \in AreaTexts, soil \in SoilTypes :
          (/\ add_land(loc, a, soil, EmptyText)
           /\ Strip(loc) # << >>
           /\ float(Strip(a)) # ValueError /\ Positive(float(Strip(a))))
          => \E r \in lands' \ lands :
                 /\ r.user_id = user_id
                 /\ r.gps_coords = None
                 /\ \E i \in 1..Len(view') : view'[i] = r.id]_vars

\* the coordinate-pair grammar: optional sign, digits, optional fractional
\* part (a point and digits)
GrammarNumber(s) ==
    \E sign \in 0..1, k \in 1..Len(s) :
        /\ sign + k <= Len(s)
        /\ sign = 1 => s[1] \in {"-", "+"}
        /\ AllDigits(SubSeq(s, sign + 1, sign + k))
        /\ \/ sign + k = Len(s)
           \/ /\ sign + k + 1 < Len(s)
              /\ s[sign + k + 1] = "."
              /\ AllDigits(SubSeq(s, sign + k + 2, Len(s)))

\* number, comma, optional whitespace, number
CoordinateGrammar(txt) ==
    \E c \in 1..Len(txt), w \in 0..Len(txt) :
        /\ txt[c] = ","
        /\ c + w <= Len(txt)
        /\ \A i \in (c + 1)..(c + w) : IsSpace(txt[i])
        /\ GrammarNumber(SubSeq(txt, 1, c - 1))
        /\ GrammarNumber(SubSeq(txt, c + w + 1, Len(txt)))

\* C8: every stored land has area > 0 and a GPS value that is null or a
\* string of the coordinate-pair grammar.
C8_StoredLandsValid ==
    \A r \in lands :
        /\ Positive(r.area)
        /\ r.gps_coords = None \/ CoordinateGrammar(r.gps_coords)

\* C9: the listing view_lands builds for owner U holds exactly the lands whose
\* owner is U, each once, in ascending order of id.
C9_ListingOfOwner ==
    last.op = "view_lands" =>
        /\ \A i \in 1..Len(view) : \E r \in lands : r.id = view[i] /\ r.user_id = user_id
        /\ \A r \in lands : r.user_id = user_id => \E i \in 1..Len(view) : view[i] = r.id
        /\ \A i, j \in 1..Len(view) : i < j => view[i] < view[j]

\* a listing of two lands
C9_Witness ==
    /\ last.op = "view_lands"
    /\ Len(view) = 2

\* the English suffix of position n
Suffix(n) ==
    IF n % 100 \in {11, 12, 13} THEN <<"t", "h">>
    ELSE IF n % 10 = 1 THEN <<"s", "t">>
    ELSE IF n % 10 = 2 THEN <<"n", "d">>
    ELSE IF n % 10 = 3 THEN <<"r", "d">>
    ELSE <<"t", "h">>

\* C10: for every position n >= 1, ordinal_suffix(n) is the decimal numeral of
\* n followed by its English ordinal suffix; 21 maps to "21st".
C10_OrdinalLabel ==
    pos >= 1 => ordinal = Str(pos) \o Suffix(pos)

\* C11: is_valid_gps accepts exactly the texts of the grammar sign? digits+
\* (. digits+)? , whitespace* and the same number again; in particular a
\* number without integer digits is refused.
C11_GrammarExact ==
    call.fn = "is_valid_gps" /\ ret.done => (ret.value <=> CoordinateGrammar(call.txt))

\* a step in which gps_timer runs fetch_from_gps
TimerFetch == fired' = fired + 1

\* C12: after edits of the GPS field to valid values that follow each other by
\* less than the debounce interval, gps_timer runs fetch_from_gps exactly once:
\* never twice for one edit, only after 800 ms without an edit, on the text of
\* the last edit (asking the geocoder once when there is one), and a pending
\* timer does end, by that call, by a manual fetch or by an invalid text.
C12_Debounce ==
    /\ [](fired <= 1)
    /\ [][TimerFetch =>
            /\ quiet >= DebounceMs
            /\ shown'.trigger = "timer"
            /\ shown'.txt = Strip(gps_edit) /\ gps_edit' = gps_edit
            /\ geolocator => Len(shown'.requests) = 1
            /\ gps_timer' = -1]_vars
    /\ (gps_timer >= 0) ~>
           (gps_timer = -1 /\ (fired = 1 \/ shown.op = "fetch_from_gps" \/ ~fetch_btn))

\* three edits less than 800 ms apart, then the one fetch for the last of them
C12_Witness ==
    /\ burst = 3
    /\ fired = 1
    /\ shown.op = "fetch_from_gps" /\ shown.trigger = "timer"
    /\ shown.txt = Strip(gps_edit)
    /\ Len(shown.requests) = 1

\* C13: when geolocator.reverse raises (provider exception or timeout),
\* fetch_from_gps does not ask again, puts the coordinate pair into the
\* location field and shows no error.
C13_GeocodeFailureSilent ==
    shown.op = "fetch_from_gps" /\ shown.requests = <<"exception">> =>
        /\ location_edit = shown.txt
        /\ shown.box = NoBox

\* the first provider answered with status 200 and a payload that has both
\* coordinates
FirstSucceeds(a) ==
    /\ ~a.raises
    /\ a.status_code = 200
    /\ a.latitude # NoNumber /\ a.longitude # NoNumber

\* the second provider answered with a payload whose loc is two numbers
SecondSucceeds(b) ==
    /\ ~b.raises
    /\ b.loc # None
    /\ Len(SplitComma(b.loc)) = 2
    /\ \A i \in 1..2 : float(Strip(SplitComma(b.loc)[i])) # ValueError

\* the fields as the second provider's answer fills them
FilledFromSecond(b) ==
    /\ gps_edit' = CommaSpace(FloatStr(float(Strip(SplitComma(b.loc)[1]))),
                              FloatStr(float(Strip(SplitComma(b.loc)[2]))))
    /\ location_edit' = CommaSpace(PyStr(b.city), PyStr(b.country))

\* C14: in fetch_current_location, when the first provider fails and the
\* second succeeds, the GPS and location fields are filled from the second
\* provider's answer and nothing is reported; when the first provider succeeds
\* the second is never asked.
C14_SecondOnlyOnFailure ==
    [][shown'.op = "fetch_current_location" =>
         \A a \in FirstResponses, b \in SecondResponses :
             fetch_current_location(a, b) =>
                 /\ FirstSucceeds(a) => shown'.requests = <<"ipapi.co">>
                 /\ ~FirstSucceeds(a) /\ SecondSucceeds(b) =>
                        FilledFromSecond(b) /\ shown'.box = NoBox]_vars

\* C15: in fetch_current_location, when both providers fail, a failure is
\* shown to the user and the GPS and location fields keep their text.
C15_BothFailReported ==
    [][shown'.op = "fetch_current_location" =>
         \A a \in FirstResponses, b \in SecondResponses :
             fetch_current_location(a, b) /\ ~FirstSucceeds(a) /\ ~SecondSucceeds(b) =>
                 /\ shown'.box # NoBox
                 /\ gps_edit' = gps_edit /\ location_edit' = location_edit]_vars

HasRice(crop_name) ==
    \E k \in 1..(Len(crop_name) - 3) : SubSeq(crop_name, k, k + 3) = <<"R","i","c","e">>

\* C16: recommend_irrigation follows the priority table: "Low" water gives the
\* drip advice whatever the crop, otherwise a name containing "Rice" gives the
\* flood advice, otherwise "High" gives the sprinkler advice, otherwise furrow;
\* rice with "Low" water never gets the flood advice.
C16_IrrigationPriority ==
    call.fn = "recommend_irrigation" /\ ret.done =>
        LET w == call.water_availability
            rice == HasRice(call.crop_name)
        IN  /\ w = "Low" => ret.value = "Drip irrigation, consider mulching"
            /\ w # "Low" /\ rice => ret.value = "Flood irrigation, 5-10cm depth"
            /\ w = "High" /\ ~rice => ret.value = "Sprinkler irrigation"
            /\ w \notin {"Low", "High"} /\ ~rice =>
                   ret.value = "Furrow irrigation, every 7-10 days"
            /\ rice /\ w = "Low" => ret.value # "Flood irrigation, 5-10cm depth"

\* a rice crop with low water got the drip advice
C16_Witness ==
    /\ call.fn = "recommend_irrigation" /\ ret.done
    /\ HasRice(call.crop_name) /\ call.water_availability = "Low"
    /\ ret.value = "Drip irrigation, consider mulching"

\* the name of record i, ignoring case, occurs in the description
NameIn(i) == ContainsIgnoringCase(call.description, call.pest_df[i])

\* C17: identify_pest returns the name of the first record, in table order,
\* whose name occurs in the description ignoring case, and "Unknown" when there
\* is none, when the description is empty or when the table is empty.
C17_FirstPest ==
    call.fn = "identify_pest" /\ ret.done =>
        LET n == Len(call.pest_df)
        IN  IF call.description = << >> \/ n = 0 \/ ~\E i \in 1..n : NameIn(i)
            THEN ret.value = <<"U","n","k","n","o","w","n">>
            ELSE \E i \in 1..n : /\ NameIn(i)
                                 /\ \A j \in 1..(i - 1) : ~NameIn(j)
                                 /\ ret.value = call.pest_df[i]

\* two different records match and the first was returned
C17_Witness ==
    /\ call.fn = "identify_pest" /\ ret.done
    /\ Len(call.pest_df) = 2 /\ call.pest_df[1] # call.pest_df[2]
    /\ NameIn(1) /\ NameIn(2)
    /\ ret.value = call.pest_df[1]

\* C18: for a crop absent from the fertilizer table recommend_fertilizer
\* returns "No recommendation" and no profile text filled with zeros; for a
\* crop of the table it returns the crop's stored nitrogen, phosphorus,
\* potassium, organic-matter and lime values.
C18_NoRecommendation ==
    call.fn = "recommend_fertilizer" /\ ret.done =>
        IF call.crop_name \notin DOMAIN call.fertilizers
        THEN ret.value.text = "No recommendation"
        ELSE LET row == call.fertilizers[call.crop_name]
             IN  /\ ret.value.text = "Recommended for"
                 /\ ret.value.crop_name = call.crop_name
                 /\ ret.value.nitrogen = Str(row.nitrogen)
                 /\ ret.value.phosphorus = Str(row.phosphorus)
                 /\ ret.value.potassium = Str(row.potassium)
                 /\ ret.value.organic_matter = Str(row.organic_matter)
                 /\ ret.value.lime = Str(row.lime)

\* an absent crop, asked of a table that holds other crops
C18_Witness ==
    /\ call.fn = "recommend_fertilizer" /\ ret.done
    /\ DOMAIN call.fertilizers # {}
    /\ call.crop_name \notin DOMAIN call.fertilizers
    /\ ret.value = [text |-> "No recommendation"]

\* positions in the catalog of the crops whose soil type equals, ignoring
\* case, the soil type of one of the user's lands
Candidates ==
    {k \in 1..Len(call.crops) :
        \E i \in 1..Len(call.lands) :
            EqualIgnoringCase(call.crops[k].soil_type, call.lands[i])}

PriceOf(name) == IF name \in DOMAIN market_prices THEN market_prices[name] ELSE 0
CostOf(name) == IF name \in DOMAIN crop_costs THEN crop_costs[name] ELSE 0

\* C19: the crops of the profit/loss chart are exactly the catalog crops whose
\* soil type matches, ignoring case, the soil type of one of the user's lands,
\* and the profit of each is price * yield - cost (amounts in tenths of a BDT,
\* yields in tenths of a ton), price and cost being 0 outside their tables;
\* price 30000, yield 5.0 and cost 5000 give 145000.
C19_ProfitChart ==
    call.fn = "generate_profit_loss_chart" /\ ret.done /\ call.lands # << >> =>
        /\ Len(ret.value.crops) = Cardinality(Candidates)
        /\ Len(ret.value.profits) = Cardinality(Candidates)
        /\ \A j \in 1..Cardinality(Candidates) :
               LET c == call.crops[Nth(Candidates, j)]
               IN  /\ ret.value.crops[j] = c.name
                   /\ ret.value.profits[j] =
                          PriceOf(c.name) * c.yield_per_hectare - 10 * CostOf(c.name)
                   /\ (PriceOf(c.name) = 30000 /\ c.yield_per_hectare = 50
                       /\ CostOf(c.name) = 5000) => ret.value.profits[j] = 1450000

\* a chart of two crops, the first with price 30000, yield 5.0 and cost 5000,
\* for lands whose soil differs from the catalog's in case only
C19_Witness ==
    /\ call.fn = "generate_profit_loss_chart" /\ ret.done
    /\ Len(ret.value.crops) = 2
    /\ ret.value.crops[1] = "Rice (Aman)" /\ ret.value.profits[1] = 1450000
    /\ call.crops[1].soil_type \notin {call.lands[i] : i \in 1..Len(call.lands)}

UniqueUsernames ==
    \A i, j \in 1..Len(users) : i # j => users[i].username # users[j].username

\* C21: registering with a username that already exists is reported as an
\* error, leaves the users table as it was and does not accept the dialog;
\* after any registrations and profile updates no two users share a username.
C21_DuplicateUsername ==
    /\ [](UniqueUsernames)
    /\ [][last'.op = "register_user" =>
            \A u \in Usernames, p \in NewPasswords, o \in OtherFields :
                (/\ register_user(u, p, o[1], o[2], o[3])
                 /\ \A t \in {u, p, o[1], o[2], o[3]} : Strip(t) # << >>
                 /\ \E i \in 1..Len(users) : users[i].username = Strip(u))
                => /\ users' = users
                   /\ last'.result = "rejected"
                   /\ last'.msg = "Username exists."]_vars

\* a registration was refused for its username while another user changed
\* theirs
C21_Witness ==
    /\ last.op = "register_user" /\ last.msg = "Username exists."
    /\ \E i \in 1..Len(users) : users[i].profile_pic # None

\* a step of the open MainWindow: check_lands belongs to main(), and is the
\* only step that takes check_pending to 0
WindowStep == pc = "main" /\ check_pending' = check_pending

WellFormed(message) ==
    /\ message.json = "object"
    /\ message.lat.t = "number" /\ message.lng.t = "number"
    /\ message.address.t # "absent"

\* C23: Bridge.receive emits locationPicked (on_map_pick runs once) for a
\* message that is a JSON object with numeric lat and lng and an address; for
\* every other message nothing is emitted and the GPS and location fields
\* stay as they were
C23_MalformedDropped ==
    [][\A message \in Messages :
           receive(message) =>
               IF WellFormed(message)
               THEN /\ shown'.op = "on_map_pick"
                    /\ location_edit' = message.address.str
               ELSE /\ shown'.op = "receive"
                    /\ gps_edit' = gps_edit
                    /\ location_edit' = location_edit]_vars

\* C24: whatever the state of the crop, pest and fertilizer tables, no
\* constructor raises; a table that is not "ok" leaves its category empty and
\* its queries at their no-result value, and a table that is "ok" is loaded
C24_TablesDegrade ==
    ret.done /\ call.fn = "services" =>
        /\ ret.value.raised = NotRaised
        /\ ret.value.crops = (IF call.crop = "ok" THEN "loaded" ELSE "empty")
        /\ ret.value.pest_df = (IF call.pest = "ok" THEN "loaded" ELSE "empty")
        /\ ret.value.fertilizers = (IF call.fertilizer = "ok" THEN "loaded" ELSE "empty")
        /\ call.crop # "ok" => ret.value.recommend_crop = "no-result"
        /\ call.pest # "ok" => ret.value.identify_pest = "no-result"
        /\ call.fertilizer # "ok" => ret.value.recommend_fertilizer = "no-result"

\* C25: in every state of LandDialog, if fetch_btn is enabled then the
\* stripped text of gps_coords is accepted by is_valid_gps
C25_FetchEnabledOnlyIfValid == fetch_btn => is_valid_gps(Strip(gps_edit))

\* a fetch has run on a text with a trailing blank and left the button
\* enabled, after the text was changed more than once
C25_Witness ==
    /\ fetch_btn
    /\ shown.op = "fetch_from_gps"
    /\ gps_edit # Strip(gps_edit)
    /\ changes > 1

\* the handler that ran last was one of the two manual actions
ManualActionLast ==
    \/ shown.op = "fetch_current_location"
    \/ shown.op = "fetch_from_gps" /\ shown.trigger = "button"

\* the timer runs fetch_from_gps and the geocoder is asked
TimerResolution == TimerFetch /\ shown'.requests # << >>

\* C26: when a manual action (the fetch button or "use current location")
\* was the last thing done to the dialog, no resolution is started by the
\* debounce timer: the timer resolves only after an edit of the GPS field
C26_ManualLeavesNoTimer == [][TimerResolution => ~ManualActionLast]_vars

\* a map click that came after a completed resolution was the last thing
\* done to the dialog: no edit and no manual action has followed it
MapPickAfterResolution == resolved /\ shown.op = "on_map_pick"

\* C27: after a map click that follows a completed resolution, the GPS field
\* holds the click's coordinates and the location field its address, and the
\* timer's fetch_from_gps leaves both as the click wrote them
C27_MapPickStays ==
    /\ [](MapPickAfterResolution => gps_edit = shown.txt /\ location_edit = <<"M">>)
    /\ [][MapPickAfterResolution /\ TimerFetch =>
              location_edit' = location_edit /\ gps_edit' = gps_edit]_vars

\* the fields of a response that are there and not empty
Present(fields) == SelectSeq(fields, LAMBDA x : x # None /\ x # EmptyText)

\* texts joined by ", "
RECURSIVE JoinComma(_)
JoinComma(texts) ==
    IF texts = << >> THEN EmptyText
    ELSE IF Len(texts) = 1 THEN texts[1]
    ELSE CommaSpace(texts[1], JoinComma(Tail(texts)))

\* fetch_current_location has just filled the two fields
FilledByProvider == shown.op = "fetch_current_location" /\ shown.txt # EmptyText

\* C28: the address that fetch_current_location puts into the location field
\* is the city, region and country of the provider's answer joined by ", "
\* without the fields that are empty or missing: no "None", no ", ," and no
\* separator at either end
C28_AddressJoin ==
    /\ [](FilledByProvider =>
              /\ ~Contains(<<"N","o","n","e">>, location_edit)
              /\ ~Contains(<<",", " ", ",">>, location_edit)
              /\ location_edit = StripSep(location_edit))
    /\ [][shown'.op = "fetch_current_location" =>
              \A a \in FirstResponses, b \in SecondResponses :
                  LET fields == IF FirstUsable(a)
                                THEN <<a.city, a.region, a.country_name>>
                                ELSE <<b.city, b.country>>
                  IN  (/\ fetch_current_location(a, b)
                       /\ shown'.txt # EmptyText
                       /\ Present(fields) # << >>)
                      => location_edit' = JoinComma(Present(fields))]_vars

\* C29: when fetch_current_location has run, whatever the providers
\* answered, the progress bar is hidden and auto_gps_btn is enabled again
C29_CurrentLocationRestores ==
    shown.op = "fetch_current_location" => ~progress /\ auto_gps_btn

\* the account of the typed username exists: register_user accepted the
\* typed username and password (nothing else registers in SpecCredentials)
TypedRegistered ==
    \E i \in 1..Len(users) : users[i].username = Strip(call.username)

\* the window of the typed account is open
TypedWindow ==
    /\ pc = "main"
    /\ \E i \in 1..Len(users) :
           users[i].id = user_id /\ users[i].username = Strip(call.username)

\* C30: once register_user has accepted the typed username and password,
\* login_clicked with the same two texts succeeds, and confirm_delete_land
\* in that user's window does not refuse the same password
C30_SamePlaintext ==
    /\ [][last'.op = "login_clicked" /\ TypedRegistered /\ LoginTyped
              => last'.result = "accepted"]_vars
    /\ [][last'.op = "confirm_delete_land" /\ TypedWindow /\ DeleteTyped
              => last'.result # "denied"]_vars

====
